---- MODULE Spec2Model ----
(***************************************************************************)
(* Model of the tyre fitment engine of src/app/page.tsx: the size parser   *)
(* and formatter, the geometry, scoreAlternative and the runSearch handler *)
(* of the Page component.                                                  *)
(*                                                                         *)
(* A string is a sequence of characters (UTF-16 code units), each written  *)
(* as a one-character string.  The alphabet is Basic Latin and Latin-1,    *)
(* with the white space U+1680 and U+FEFF and the capitals outside Latin-1 *)
(* of the letters of Latin-1: U+039C, and U+0178, which cannot be written  *)
(* in a string of this language and is named "U+0178" (one character).     *)
(* Letters outside Latin-1 are not in the alphabet.                        *)
(*                                                                         *)
(* A number is an IEEE 754 double, as in the source: a record              *)
(* [cls, neg, m, e] where cls is "nan", "inf" or "fin" and a finite value  *)
(* is (-1)^neg * m * 2^e.  The mantissa m is a natural number below 2^53   *)
(* written in limbs of 15 bits, least significant first (<<>> is 0, and    *)
(* <<9, 8>> is 9 + 8 * 2^15); it is odd, or zero with e = 0, so that a     *)
(* value has one record (two for zero: +0 and -0).  The arithmetic         *)
(* computes the exact result in naturals of any length and rounds it to    *)
(* the nearest double, ties to even.  Num(265) is the double 265 and       *)
(* Decimal(254, -1) the double nearest to 25.4.                            *)
(***************************************************************************)
EXTENDS Integers, Sequences, FiniteSets, TLC

VARIABLES vrm, error, oem, alts, oemTyre, history,
          input, src, parsed, stage,
          evalOem, evalAlt, evalRes

vars == <<vrm, error, oem, alts, oemTyre, history,
          input, src, parsed, stage, evalOem, evalAlt, evalRes>>

uiVars == <<vrm, error, oem, alts, oemTyre, history>>
parseVars == <<input, src, parsed, stage>>
scoreVars == <<evalOem, evalAlt, evalRes>>

null == [cls |-> "null"]

\* A const of the source: The({e : x \in {v}}) is e with x standing for the
\* value of v, which is computed once.
The(S) == CHOOSE x \in S : TRUE

Max(a, b) == IF a > b THEN a ELSE b
Min(a, b) == IF a < b THEN a ELSE b

(***************************************************************************)
(* Characters and strings                                                  *)
(***************************************************************************)
\* WhiteSpace and LineTerminator of ECMA-262: tab, line feed, carriage
\* return, form feed, space, then U+000B, U+00A0, U+1680 and U+FEFF
WhiteSpace == {"\t", "\n", "\r", "\f", " ", "", " ", " ", "﻿"}

\* The letters of the alphabet that have a capital and, in the same order,
\* their capitals: two characters for U+00DF, U+039C for U+00B5 and
\* U+0178 for U+00FF
LowerCase ==
    <<"a", "b", "c", "d", "e", "f", "g", "h", "i", "j", "k", "l", "m",
      "n", "o", "p", "q", "r", "s", "t", "u", "v", "w", "x", "y", "z",
      "à", "á", "â", "ã", "ä", "å", "æ", "ç", "è", "é", "ê", "ë", "ì",
      "í", "î", "ï", "ð", "ñ", "ò", "ó", "ô", "õ", "ö", "ø", "ù", "ú",
      "û", "ü", "ý", "þ", "ß", "µ", "ÿ">>

UpperCase ==
    <<<<"A">>, <<"B">>, <<"C">>, <<"D">>, <<"E">>, <<"F">>, <<"G">>, <<"H">>,
      <<"I">>, <<"J">>, <<"K">>, <<"L">>, <<"M">>, <<"N">>, <<"O">>, <<"P">>,
      <<"Q">>, <<"R">>, <<"S">>, <<"T">>, <<"U">>, <<"V">>, <<"W">>, <<"X">>,
      <<"Y">>, <<"Z">>, <<"À">>, <<"Á">>, <<"Â">>, <<"Ã">>, <<"Ä">>, <<"Å">>,
      <<"Æ">>, <<"Ç">>, <<"È">>, <<"É">>, <<"Ê">>, <<"Ë">>, <<"Ì">>, <<"Í">>,
      <<"Î">>, <<"Ï">>, <<"Ð">>, <<"Ñ">>, <<"Ò">>, <<"Ó">>, <<"Ô">>, <<"Õ">>,
      <<"Ö">>, <<"Ø">>, <<"Ù">>, <<"Ú">>, <<"Û">>, <<"Ü">>, <<"Ý">>, <<"Þ">>,
      <<"S", "S">>, <<"Μ">>, <<"U+0178">>>>

\* the upper case of one character: a string (two characters for U+00DF)
toUpperCaseChar(c) ==
    IF \E i \in 1..Len(LowerCase) : LowerCase[i] = c
    THEN UpperCase[CHOOSE i \in 1..Len(LowerCase) : LowerCase[i] = c]
    ELSE <<c>>

RECURSIVE toUpperCase(_)
toUpperCase(s) ==
    IF s = <<>> THEN <<>> ELSE toUpperCaseChar(Head(s)) \o toUpperCase(Tail(s))

trimStart(s) ==
    IF \A i \in 1..Len(s) : s[i] \in WhiteSpace THEN <<>>
    ELSE SubSeq(s, CHOOSE i \in 1..Len(s) :
                       s[i] \notin WhiteSpace /\ \A j \in 1..(i - 1) : s[j] \in WhiteSpace,
                Len(s))

trimEnd(s) ==
    IF \A i \in 1..Len(s) : s[i] \in WhiteSpace THEN <<>>
    ELSE SubSeq(s, 1, CHOOSE i \in 1..Len(s) :
                          s[i] \notin WhiteSpace /\ \A j \in (i + 1)..Len(s) : s[j] \in WhiteSpace)

trim(s) == trimEnd(trimStart(s))

\* replaceAll(" ", "")
removeSpaces(s) == SelectSeq(s, LAMBDA c : c # " ")

\* String.prototype.split for a one-character separator: the segments
\* between the occurrences, empty segments included.
RECURSIVE splitFrom(_, _, _)
splitFrom(s, sep, cur) ==
    IF s = <<>> THEN <<cur>>
    ELSE IF Head(s) = sep THEN <<cur>> \o splitFrom(Tail(s), sep, <<>>)
    ELSE splitFrom(Tail(s), sep, Append(cur, Head(s)))

split(s, sep) == splitFrom(s, sep, <<>>)

normalise(s) == removeSpaces(toUpperCase(trim(s)))

RECURSIVE padStart(_, _, _)
padStart(s, len, c) == IF Len(s) >= len THEN s ELSE padStart(<<c>> \o s, len, c)

(***************************************************************************)
(* Natural numbers of any length, in limbs of 15 bits.  The operators      *)
(* take the value of an argument once (The), and work on ranges of limbs   *)
(* by halves.                                                              *)
(***************************************************************************)

Base == 2 ^ 15

RECURSIVE Pow2(_)
Pow2(k) == IF k = 0 THEN 1 ELSE 2 * Pow2(k - 1)

RECURSIVE SmallBitLen(_)
SmallBitLen(n) == IF n = 0 THEN 0 ELSE 1 + SmallBitLen(n \div 2)

RECURSIVE SmallTrailingZeros(_)
SmallTrailingZeros(n) == IF n % 2 = 1 THEN 0 ELSE 1 + SmallTrailingZeros(n \div 2)

\* the sequence of the values of a function on 1..n
Limbs(f) == <<>> \o f

Limb(a, i) == IF i <= Len(a) THEN a[i] ELSE 0

\* a without its zero limbs at the high end
BTrim(a0) ==
    The({(
        IF \A i \in 1..Len(a) : a[i] = 0 THEN <<>>
        ELSE SubSeq(a, 1, CHOOSE i \in 1..Len(a) :
                              a[i] # 0 /\ \A j \in (i + 1)..Len(a) : a[j] = 0))
         : a \in {a0}})

\* a natural number below 2^31
BFromInt(n) == BTrim(<<n % Base, (n \div Base) % Base, n \div (Base * Base)>>)

\* -1, 0 or 1 as a < b, a = b or a > b
BCmp(a0, b0) ==
    The({(
        LET a == p[1]
            b == p[2]
        IN  IF Len(a) # Len(b) THEN (IF Len(a) < Len(b) THEN 0 - 1 ELSE 1)
            ELSE IF a = b THEN 0
            ELSE The({( IF a[i] < b[i] THEN 0 - 1 ELSE 1)
                 : i \in {CHOOSE i \in 1..Len(a) :
                          a[i] # b[i] /\ \A j \in (i + 1)..Len(a) : a[j] = b[j]}}))
         : p \in {<<a0, b0>>}})

\* a + b: limb i takes a carry when a lower limb overflows and the limbs
\* between are full
BAdd(a0, b0) ==
    The({(
        LET a == p[1]
            b == p[2]
            s(i) == Limb(a, i) + Limb(b, i)
            c(i) == \E j \in 1..(i - 1) :
                       s(j) >= Base /\ \A l \in (j + 1)..(i - 1) : s(l) = Base - 1
        IN  BTrim(Limbs([i \in 1..(Max(Len(a), Len(b)) + 1) |->
                            (s(i) + (IF c(i) THEN 1 ELSE 0)) % Base])))
         : p \in {<<a0, b0>>}})

\* a - b for a >= b: limb i lends when a lower limb falls short and the
\* limbs between are equal
BSub(a0, b0) ==
    The({(
        LET a == p[1]
            b == p[2]
            d(i) == a[i] - Limb(b, i)
            w(i) == \E j \in 1..(i - 1) :
                       d(j) < 0 /\ \A l \in (j + 1)..(i - 1) : d(l) = 0
        IN  BTrim(Limbs([i \in 1..Len(a) |->
                            (d(i) - (IF w(i) THEN 1 ELSE 0) + Base) % Base])))
         : p \in {<<a0, b0>>}})

\* a * k for 0 <= k < Base
BMulSmall(a0, k0) ==
    The({(
        LET a == p[1]
            k == p[2]
        IN  IF k = 0 THEN <<>>
            ELSE IF k = 1 THEN a
            ELSE BAdd(Limbs([i \in 1..Len(a) |-> (a[i] * k) % Base]),
                      Limbs([i \in 1..(Len(a) + 1) |->
                                IF i = 1 THEN 0 ELSE (a[i - 1] * k) \div Base])))
         : p \in {<<a0, k0>>}})

\* a * Base^n
BShiftLimbs(a0, n) ==
    The({( IF a = <<>> THEN <<>> ELSE Limbs([i \in 1..n |-> 0]) \o a)
         : a \in {a0}})

\* a times the limbs lo..hi of b, in their places
RECURSIVE BMulRange(_, _, _, _)
BMulRange(a, b, lo, hi) ==
    IF lo = hi THEN BShiftLimbs(BMulSmall(a, b[lo]), lo - 1)
    ELSE BAdd(BMulRange(a, b, lo, (lo + hi) \div 2),
              BMulRange(a, b, (lo + hi) \div 2 + 1, hi))

BMul(a0, b0) ==
    The({(
        IF p[1] = <<>> \/ p[2] = <<>> THEN <<>>
        ELSE BMulRange(p[1], p[2], 1, Len(p[2])))
         : p \in {<<a0, b0>>}})

\* a * 2^n
BShl(a0, n) == BShiftLimbs(BMulSmall(a0, Pow2(n % 15)), n \div 15)

\* a div 2^n
BShr(a0, n0) ==
    The({(
        LET a == p[1]
            q == p[2] \div 15
            r == p[2] % 15
        IN  IF q >= Len(a) THEN <<>>
            ELSE IF r = 0 THEN SubSeq(a, q + 1, Len(a))
            ELSE The({(
                    BTrim(Limbs([i \in 1..(Len(a) - q) |->
                                    a[i + q] \div w[1] + (Limb(a, i + q + 1) % w[1]) * w[2]])))
                 : w \in {<<Pow2(r), Pow2(15 - r)>>}}))
         : p \in {<<a0, n0>>}})

BitLen(a0) ==
    The({( IF a = <<>> THEN 0 ELSE 15 * (Len(a) - 1) + SmallBitLen(a[Len(a)]))
         : a \in {a0}})

BIsOdd(a0) == The({( a # <<>> /\ a[1] % 2 = 1)
     : a \in {a0}})

\* the number of zero bits at the low end of a # 0
TrailingZeros(a0) ==
    The({(
    The({(
        15 * (i - 1) + SmallTrailingZeros(a[i]))
         : i \in {CHOOSE i \in 1..Len(a) : a[i] # 0 /\ \A j \in 1..(i - 1) : a[j] = 0}}))
         : a \in {a0}})

\* the limbs hi..lo of a divided by k, r carried in from the limbs above:
\* the quotient limbs and the remainder
RECURSIVE BDivSmallRange(_, _, _, _, _)
BDivSmallRange(a, k, lo, hi, r) ==
    IF lo = hi THEN <<<<(r * Base + a[lo]) \div k>>, (r * Base + a[lo]) % k>>
    ELSE The({(
         The({(
            <<dn[1] \o up[1], dn[2]>>)
              : dn \in {BDivSmallRange(a, k, lo, (lo + hi) \div 2, up[2])}}))
         : up \in {BDivSmallRange(a, k, (lo + hi) \div 2 + 1, hi, r)}})

\* <<a div k, a mod k>> for 0 < k < Base
BDivSmall(a0, k0) ==
    The({(
        IF p[1] = <<>> THEN <<<<>>, 0>>
        ELSE The({(
                <<BTrim(qr[1]), qr[2]>>)
             : qr \in {BDivSmallRange(p[1], p[2], 1, Len(p[1]), 0)}}))
         : p \in {<<a0, k0>>}})

\* the largest q <= qhat with d * q <= r, and r - d * q
RECURSIVE BFixDigit(_, _, _)
BFixDigit(r, d, qhat) ==
    The({(
        IF BCmp(p, r) > 0 THEN BFixDigit(r, d, qhat - 1) ELSE <<qhat, BSub(r, p)>>)
         : p \in {BMulSmall(d, qhat)}})

\* r * Base + x
BPrepend(x, r) == IF r = <<>> /\ x = 0 THEN <<>> ELSE <<x>> \o r

\* one step of the long division by d, whose top limb is at least
\* Base / 2: the limb x is brought down onto the remainder r < d
BLongDivStep(x, d, r) ==
    The({(
    The({(
    The({( <<<<qr[1]>>, qr[2]>>)
         : qr \in {BFixDigit(r1, d, qhat)}}))
         : qhat \in {Min(Base - 1, (Limb(r1, Len(d) + 1) * Base + Limb(r1, Len(d))) \div d[Len(d)])}}))
         : r1 \in {BPrepend(x, r)}})

\* the limbs hi..lo of a brought down onto r: the quotient limbs and the
\* remainder
RECURSIVE BLongDivRange(_, _, _, _, _)
BLongDivRange(a, d, lo, hi, r) ==
    IF lo = hi THEN BLongDivStep(a[lo], d, r)
    ELSE The({(
         The({(
            <<dn[1] \o up[1], dn[2]>>)
              : dn \in {BLongDivRange(a, d, lo, (lo + hi) \div 2, up[2])}}))
         : up \in {BLongDivRange(a, d, (lo + hi) \div 2 + 1, hi, r)}})

\* <<a div d, a mod d>> for d # 0
BDiv(a0, d0) ==
    The({(
        IF p[1] = <<>> THEN <<<<>>, <<>>>>
        ELSE IF Len(p[2]) = 1
        THEN The({( <<qr[1], BFromInt(qr[2])>>)
             : qr \in {BDivSmall(p[1], p[2][1])}})
        ELSE The({(
             The({(
             The({(
                <<BTrim(qr[1]), BShr(qr[2], s)>>)
                  : qr \in {BLongDivRange(ad[1], ad[2], 1, Len(ad[1]), <<>>)}}))
                  : ad \in {<<BShl(p[1], s), BShl(p[2], s)>>}}))
             : s \in {15 - SmallBitLen(p[2][Len(p[2])])}}))
         : p \in {<<a0, d0>>}})

\* b^n for 0 < b < Base
RECURSIVE BPow(_, _)
BPow(b, n) ==
    IF n = 0 THEN <<1>>
    ELSE The({(
            IF n % 2 = 0 THEN BMul(h, h) ELSE BMulSmall(BMul(h, h), b))
         : h \in {BPow(b, n \div 2)}})

BPow5(n) == BPow(5, n)

BPow10(n) == BShl(BPow(5, n), n)

\* the number written by the digits ds[lo..hi] in the radix, below 2^31
RECURSIVE SmallFromDigits(_, _, _, _)
SmallFromDigits(ds, radix, lo, hi) ==
    IF hi < lo THEN 0 ELSE radix * SmallFromDigits(ds, radix, lo, hi - 1) + ds[hi]

\* the natural number written by the digits ds[lo..hi] in the radix
RECURSIVE BFromDigitsRange(_, _, _, _)
BFromDigitsRange(ds, radix, lo, hi) ==
    IF hi - lo < 4 THEN BFromInt(SmallFromDigits(ds, radix, lo, hi))
    ELSE BAdd(BMul(BFromDigitsRange(ds, radix, lo, (lo + hi) \div 2),
                   BPow(radix, hi - (lo + hi) \div 2)),
              BFromDigitsRange(ds, radix, (lo + hi) \div 2 + 1, hi))

BFromDigits(ds0, radix) == The({( BFromDigitsRange(ds, radix, 1, Len(ds)))
     : ds \in {ds0}})

RECURSIVE SmallDigits(_)
SmallDigits(n) == IF n < 10 THEN <<n>> ELSE Append(SmallDigits(n \div 10), n % 10)

StripLeadingZeros(ds0) ==
    The({(
        IF \A i \in 1..Len(ds) : ds[i] = 0 THEN <<>>
        ELSE SubSeq(ds, CHOOSE i \in 1..Len(ds) :
                            ds[i] # 0 /\ \A j \in 1..(i - 1) : ds[j] = 0,
                    Len(ds)))
         : ds \in {ds0}})

StripTrailingZeros(ds0) ==
    The({(
        IF \A i \in 1..Len(ds) : ds[i] = 0 THEN <<>>
        ELSE SubSeq(ds, 1, CHOOSE i \in 1..Len(ds) :
                               ds[i] # 0 /\ \A j \in (i + 1)..Len(ds) : ds[j] = 0))
         : ds \in {ds0}})

\* the n decimal digits of a < 10^n, most significant first
RECURSIVE BDigitsPadded(_, _)
BDigitsPadded(a, n) ==
    IF n <= 4
    THEN Limbs([i \in 1..n |-> (Limb(a, 1) \div <<1, 10, 100, 1000>>[n - i + 1]) % 10])
    ELSE The({(
            BDigitsPadded(qr[1], n - n \div 2) \o BDigitsPadded(qr[2], n \div 2))
         : qr \in {BDiv(a, BPow10(n \div 2))}})

\* the decimal digits of a, most significant first (<<>> for 0)
BDigits(a0) ==
    The({(
        StripLeadingZeros(BDigitsPadded(a, (BitLen(a) * 31) \div 100 + 1)))
         : a \in {a0}})

(***************************************************************************)
(* Doubles                                                                 *)
(***************************************************************************)
NaN == [cls |-> "nan", neg |-> FALSE, m |-> <<>>, e |-> 0]
Infinity(neg) == [cls |-> "inf", neg |-> neg, m |-> <<>>, e |-> 0]
SignedZero(neg) == [cls |-> "fin", neg |-> neg, m |-> <<>>, e |-> 0]
Zero == SignedZero(FALSE)

isFinite(v) == v.cls = "fin"
IsNaN(v) == v.cls = "nan"
IsZero(v) == v.cls = "fin" /\ v.m = <<>>

\* (-1)^neg * a * 2^e for a below 2^53, as the record of that value
Canonical(neg, a0, e) ==
    The({(
        IF a = <<>> THEN SignedZero(neg)
        ELSE The({(
                [cls |-> "fin", neg |-> neg, m |-> BShr(a, z), e |-> e + z])
             : z \in {TrailingZeros(a)}}))
         : a \in {a0}})

\* the same, Infinity from 2^1024 on
Finish(neg, a0, e) ==
    The({(
        IF BitLen(a) + e > 1024 THEN Infinity(neg) ELSE Canonical(neg, a, e))
         : a \in {a0}})

\* The double nearest to (-1)^neg * (a + f) * 2^e, ties to even, where f
\* is 0, or lies strictly between 0 and 1 when sticky (a then has at
\* least 55 bits).  53 bits are kept, fewer below 2^-1022.
Round(neg, a0, e0, sticky) ==
    The({(
    The({(
        IF p[1] = <<>> \/ s <= 0 THEN Finish(neg, p[1], p[2])
        ELSE The({(
             The({(
                IF BIsOdd(q2) /\ (sticky \/ BIsOdd(q) \/ BShl(q2, s - 1) # p[1])
                THEN Finish(neg, BAdd(q, <<1>>), p[2] + s)
                ELSE Finish(neg, q, p[2] + s))
                  : q \in {BShr(q2, 1)}}))
             : q2 \in {BShr(p[1], s - 1)}}))
         : s \in {Max(BitLen(p[1]) - 53, (0 - 1074) - p[2])}}))
         : p \in {<<a0, e0>>}})

\* the double of an integer
Num(i) == IF i < 0 THEN Canonical(TRUE, BFromInt(0 - i), 0) ELSE Canonical(FALSE, BFromInt(i), 0)

\* The double nearest to (-1)^neg * a * 10^x: the value of a decimal
\* literal.  Far above the largest double it is Infinity, far below the
\* smallest it is zero; in between the quotient is computed to 56 bits.
DecimalValue(neg, a0, x0) ==
    The({(
        LET a == p[1]
            x == p[2]
        IN  IF a = <<>> THEN SignedZero(neg)
            ELSE IF ((BitLen(a) - 1) * 30) \div 100 + x > 309 THEN Infinity(neg)
            ELSE IF (BitLen(a) * 31) \div 100 + 1 + x < 0 - 324 THEN SignedZero(neg)
            ELSE IF x = 0 THEN Round(neg, a, 0, FALSE)
            ELSE IF x > 0 THEN Round(neg, BMul(a, BPow10(x)), 0, FALSE)
            ELSE The({(
                 The({(
                 The({(
                    Round(neg, qr[1], 0 - k, qr[2] # <<>>))
                      : qr \in {BDiv(BShl(a, k), d)}}))
                      : k \in {Max(0, BitLen(d) - BitLen(a) + 56)}}))
                 : d \in {BPow10(0 - x)}}))
         : p \in {<<a0, x0>>}})

\* a numeric literal of the source: m * 10^x
Decimal(m, x) == DecimalValue(m < 0, BFromInt(IF m < 0 THEN 0 - m ELSE m), x)

Negate(v0) == The({( [v EXCEPT !.neg = v.cls # "nan" /\ ~v.neg])
     : v \in {v0}})

\* variant: the sign kept
MathAbsIdentity(v) == v

\* Math.abs
MathAbs(v) == [v EXCEPT !.neg = FALSE]

\* -1, 0, 1 for the magnitudes |a| < |b|, |a| = |b|, |a| > |b| (no NaN)
MagnitudeCmp(a, b) ==
    IF a.cls = "inf" \/ b.cls = "inf"
    THEN (IF a.cls = b.cls THEN 0 ELSE IF a.cls = "inf" THEN 1 ELSE 0 - 1)
    ELSE IF a.m = <<>> \/ b.m = <<>>
    THEN (IF a.m = b.m THEN 0 ELSE IF a.m = <<>> THEN 0 - 1 ELSE 1)
    ELSE IF BitLen(a.m) + a.e # BitLen(b.m) + b.e
    THEN (IF BitLen(a.m) + a.e < BitLen(b.m) + b.e THEN 0 - 1 ELSE 1)
    ELSE BCmp(BShl(a.m, a.e - Min(a.e, b.e)), BShl(b.m, b.e - Min(a.e, b.e)))

Sign(v) == IF v.cls = "fin" /\ v.m = <<>> THEN 0 ELSE IF v.neg THEN 0 - 1 ELSE 1

\* -1, 0, 1 for a < b, a = b, a > b (+0 = -0), and 2 when either is NaN
Cmp(a0, b0) ==
    The({(
        IF p[1].cls = "nan" \/ p[2].cls = "nan" THEN 2
        ELSE IF Sign(p[1]) # Sign(p[2]) THEN (IF Sign(p[1]) < Sign(p[2]) THEN 0 - 1 ELSE 1)
        ELSE Sign(p[1]) * MagnitudeCmp(p[1], p[2]))
         : p \in {<<a0, b0>>}})

\* a < b, a > b, a <= b, a >= b, a === b and a !== b of the source
LessThanOrEqual(a, b) == Cmp(a, b) \in {0 - 1, 0}
LessThan(a, b) == Cmp(a, b) = 0 - 1
GreaterThan(a, b) == Cmp(a, b) = 1
GreaterThanOrEqual(a, b) == Cmp(a, b) \in {0, 1}
StrictEquals(a, b) == Cmp(a, b) = 0
StrictNotEquals(a, b) == Cmp(a, b) # 0

\* a + b for finite a and b, neither zero
AddFinite(a, b) ==
    The({(
    The({(
        IF a.neg = b.neg THEN Round(a.neg, BAdd(xy[1], xy[2]), e, FALSE)
        ELSE The({(
                IF c = 0 THEN Zero
                ELSE IF c > 0 THEN Round(a.neg, BSub(xy[1], xy[2]), e, FALSE)
                ELSE Round(b.neg, BSub(xy[2], xy[1]), e, FALSE))
             : c \in {BCmp(xy[1], xy[2])}}))
         : xy \in {<<BShl(a.m, a.e - e), BShl(b.m, b.e - e)>>}}))
         : e \in {Min(a.e, b.e)}})

\* a + b
Add(a0, b0) ==
    The({(
        LET a == p[1]
            b == p[2]
        IN  IF a.cls = "nan" \/ b.cls = "nan" THEN NaN
            ELSE IF a.cls = "inf" THEN (IF b.cls = "inf" /\ a.neg # b.neg THEN NaN ELSE a)
            ELSE IF b.cls = "inf" THEN b
            ELSE IF a.m = <<>> /\ b.m = <<>> THEN SignedZero(a.neg /\ b.neg)
            ELSE IF a.m = <<>> THEN b
            ELSE IF b.m = <<>> THEN a
            ELSE AddFinite(a, b))
         : p \in {<<a0, b0>>}})

\* a - b
Subtract(a, b) == Add(a, Negate(b))

\* a * b
Multiply(a0, b0) ==
    The({(
        LET a == p[1]
            b == p[2]
        IN  IF a.cls = "nan" \/ b.cls = "nan" THEN NaN
            ELSE IF a.cls = "inf" \/ b.cls = "inf"
            THEN (IF IsZero(a) \/ IsZero(b) THEN NaN ELSE Infinity(a.neg # b.neg))
            ELSE Round(a.neg # b.neg, BMul(a.m, b.m), a.e + b.e, FALSE))
         : p \in {<<a0, b0>>}})

\* a / b
Divide(a0, b0) ==
    The({(
        LET a == p[1]
            b == p[2]
        IN  IF a.cls = "nan" \/ b.cls = "nan" THEN NaN
            ELSE IF a.cls = "inf"
            THEN (IF b.cls = "inf" THEN NaN ELSE Infinity(a.neg # b.neg))
            ELSE IF b.cls = "inf" THEN SignedZero(a.neg # b.neg)
            ELSE IF b.m = <<>> THEN (IF a.m = <<>> THEN NaN ELSE Infinity(a.neg # b.neg))
            ELSE IF a.m = <<>> THEN SignedZero(a.neg # b.neg)
            ELSE The({(
                 The({(
                    Round(a.neg # b.neg, qr[1], a.e - b.e - k, qr[2] # <<>>))
                      : qr \in {BDiv(BShl(a.m, k), b.m)}}))
                 : k \in {Max(0, BitLen(b.m) - BitLen(a.m) + 56)}}))
         : p \in {<<a0, b0>>}})

\* Math.max and Math.min of two numbers
MathMax(a0, b0) ==
    The({(
    The({(
        IF c = 2 THEN NaN
        ELSE IF c = 0 THEN (IF p[1].neg THEN p[2] ELSE p[1])
        ELSE IF c < 0 THEN p[2] ELSE p[1])
         : c \in {Cmp(p[1], p[2])}}))
         : p \in {<<a0, b0>>}})

MathMin(a0, b0) ==
    The({(
    The({(
        IF c = 2 THEN NaN
        ELSE IF c = 0 THEN (IF p[1].neg THEN p[1] ELSE p[2])
        ELSE IF c < 0 THEN p[1] ELSE p[2])
         : c \in {Cmp(p[1], p[2])}}))
         : p \in {<<a0, b0>>}})

\* Math.round: the nearest integer, halves towards +Infinity
MathRound(v0) ==
    The({(
        IF v.cls # "fin" \/ v.e >= 0 THEN v
        ELSE The({(
                IF v.neg THEN Canonical(TRUE, BShr(BSub(up, <<1>>), 0 - v.e), 0)
                ELSE Canonical(FALSE, BShr(up, 0 - v.e), 0))
             : up \in {BAdd(v.m, BShl(<<1>>, (0 - v.e) - 1))}}))
         : v \in {v0}})

(***************************************************************************)
(* Number(string), String(number) and toFixed                              *)
(***************************************************************************)
DigitChars == <<"0", "1", "2", "3", "4", "5", "6", "7", "8", "9",
                "a", "b", "c", "d", "e", "f">>
DigitCharsUpper == <<"0", "1", "2", "3", "4", "5", "6", "7", "8", "9",
                     "A", "B", "C", "D", "E", "F">>

IsDigit(c, radix) == \E i \in 1..radix : DigitChars[i] = c \/ DigitCharsUpper[i] = c

DigitVal(c) == (CHOOSE i \in 1..16 : DigitChars[i] = c \/ DigitCharsUpper[i] = c) - 1

AllDigits(s, radix) == \A i \in 1..Len(s) : IsDigit(s[i], radix)

DigitVals(s) == Limbs([i \in 1..Len(s) |-> DigitVal(s[i])])

DigitText(ds) == Limbs([i \in 1..Len(ds) |-> DigitChars[ds[i] + 1]])

\* the first position of s that holds a character of cs, 0 if none does
IndexOf(s, cs) ==
    IF \E i \in 1..Len(s) : s[i] \in cs
    THEN CHOOSE i \in 1..Len(s) : s[i] \in cs /\ \A j \in 1..(i - 1) : s[j] \notin cs
    ELSE 0

HasSign(s) == s # <<>> /\ Head(s) \in {"+", "-"}

StripSign(s) == IF HasSign(s) THEN Tail(s) ELSE s

RECURSIVE SmallValue(_)
SmallValue(ds) ==
    IF ds = <<>> THEN 0 ELSE 10 * SmallValue(SubSeq(ds, 1, Len(ds) - 1)) + ds[Len(ds)]

\* the value of an exponent part; beyond six digits any value has the
\* same effect
ExponentValue(ex) ==
    The({(
        (IF ex # <<>> /\ Head(ex) = "-" THEN 0 - 1 ELSE 1)
        * (IF Len(ds) > 6 THEN 999999 ELSE SmallValue(ds)))
         : ds \in {StripLeadingZeros(DigitVals(StripSign(ex)))}})

\* NonDecimalIntegerLiteral: the digits after 0x, 0o or 0b
RadixLiteral(ds, radix) ==
    IF ds = <<>> \/ ~AllDigits(ds, radix) THEN NaN
    ELSE Round(FALSE, BFromDigits(DigitVals(ds), radix), 0, FALSE)

\* StrDecimalLiteral: [+-] Infinity, or [+-] then digits [. digits*] or
\* . digits+ , then an optional exponent  e [+-] digits+
DecimalLiteral(t) ==
    LET neg  == Head(t) = "-"
        body == StripSign(t)
        e    == IndexOf(body, {"e", "E"})
        mant == IF e = 0 THEN body ELSE SubSeq(body, 1, e - 1)
        ex   == IF e = 0 THEN <<>> ELSE SubSeq(body, e + 1, Len(body))
        dot  == IndexOf(mant, {"."})
        ip   == IF dot = 0 THEN mant ELSE SubSeq(mant, 1, dot - 1)
        fp   == IF dot = 0 THEN <<>> ELSE SubSeq(mant, dot + 1, Len(mant))
    IN  IF body = <<"I", "n", "f", "i", "n", "i", "t", "y">> THEN Infinity(neg)
        ELSE IF ~AllDigits(ip, 10) \/ ~AllDigits(fp, 10) \/ Len(ip) + Len(fp) = 0 THEN NaN
        ELSE IF e # 0 /\ (StripSign(ex) = <<>> \/ ~AllDigits(StripSign(ex), 10)) THEN NaN
        ELSE DecimalValue(neg, BFromDigits(DigitVals(ip \o fp), 10),
                          (IF e = 0 THEN 0 ELSE ExponentValue(ex)) - Len(fp))

\* Number(s): StringToNumber of ECMA-262
Number(s) ==
    The({(
        IF t = <<>> THEN Zero
        ELSE IF Len(t) >= 2 /\ t[1] = "0" /\ t[2] \in {"x", "X"}
        THEN RadixLiteral(SubSeq(t, 3, Len(t)), 16)
        ELSE IF Len(t) >= 2 /\ t[1] = "0" /\ t[2] \in {"o", "O"}
        THEN RadixLiteral(SubSeq(t, 3, Len(t)), 8)
        ELSE IF Len(t) >= 2 /\ t[1] = "0" /\ t[2] \in {"b", "B"}
        THEN RadixLiteral(SubSeq(t, 3, Len(t)), 2)
        ELSE DecimalLiteral(t))
         : t \in {trim(s)}})

\* The decimal expansion of |v| for a finite v # 0: <<ds, n>> with ds
\* free of leading and trailing zeros and |v| = 0.ds * 10^n
ExactDecimal(v) ==
    The({(
            <<StripTrailingZeros(ds), Len(ds) + (IF v.e >= 0 THEN 0 ELSE v.e)>>)
         : ds \in {IF v.e >= 0 THEN BDigits(BShl(v.m, v.e)) ELSE BDigits(BMul(v.m, BPow5(0 - v.e)))}})

\* does 0.ds * 10^n read back as |v| ?
ReadsBack(ds, n, v) ==
    DecimalValue(FALSE, BFromDigits(ds, 10), n - Len(ds)) = MathAbs(v)

\* ds + 1 in its last place
RECURSIVE Increment(_)
Increment(ds) ==
    IF ds = <<>> THEN <<1>>
    ELSE IF ds[Len(ds)] < 9 THEN [ds EXCEPT ![Len(ds)] = ds[Len(ds)] + 1]
    ELSE Append(Increment(SubSeq(ds, 1, Len(ds) - 1)), 0)

\* is 0.ds nearer to its first k digits than to these plus one in the
\* last place (when as near, the even one counts as nearer)
NearerBelow(ds, k) ==
    \/ ds[k + 1] < 5
    \/ /\ ds[k + 1] = 5
       /\ \A i \in (k + 2)..Len(ds) : ds[i] = 0
       /\ ds[k] % 2 = 0

\* The first k digits of 0.ds, or these plus one in the last place,
\* whichever reads back as |v| (the nearer one when both do): <<digits, n>>
\* with |v| read from 0.digits * 10^n, or <<>> when neither does
Candidate(v, ds, n, k) ==
    The({(
    The({(
    The({(
    The({(
        IF loOk /\ (~hiOk \/ NearerBelow(ds, k)) THEN <<StripTrailingZeros(lo), n>>
        ELSE IF hiOk THEN <<StripTrailingZeros(hi), n + (Len(hi) - k)>>
        ELSE <<>>)
         : hiOk \in {ReadsBack(hi, n + (Len(hi) - k), v)}}))
         : loOk \in {ReadsBack(lo, n, v)}}))
         : hi \in {Increment(lo)}}))
         : lo \in {SubSeq(ds, 1, k)}})

\* the least number of digits, k or more, that read back as |v|
RECURSIVE ShortestLength(_, _, _, _)
ShortestLength(v, ds, n, k) ==
    IF k >= Len(ds) \/ Candidate(v, ds, n, k) # <<>> THEN k
    ELSE ShortestLength(v, ds, n, k + 1)

\* The shortest digits that read back as |v|.  An integer below 2^53 has
\* no shorter digits than its own: fewer digits write another integer.
Shortest(v) ==
    The({(
        IF v.e >= 0 /\ BitLen(v.m) + v.e <= 53 THEN dn
        ELSE The({(
                IF k >= Len(dn[1]) THEN dn ELSE Candidate(v, dn[1], dn[2], k))
             : k \in {ShortestLength(v, dn[1], dn[2], 1)}}))
         : dn \in {ExactDecimal(v)}})

Zeros(k) == Limbs([i \in 1..k |-> "0"])

IntText(i) == IF i < 0 THEN <<"-">> \o DigitText(SmallDigits(0 - i)) ELSE DigitText(SmallDigits(i))

\* Number::toString for the digits ds and the exponent n of a value
\* 0.ds * 10^n
DigitsToString(ds, n) ==
    LET k == Len(ds)
        t == DigitText(ds)
    IN  IF k <= n /\ n <= 21 THEN t \o Zeros(n - k)
        ELSE IF 0 < n /\ n <= 21 THEN SubSeq(t, 1, n) \o <<".">> \o SubSeq(t, n + 1, k)
        ELSE IF 0 - 6 < n /\ n <= 0 THEN <<"0", ".">> \o Zeros(0 - n) \o t
        ELSE (IF k = 1 THEN t ELSE <<t[1], ".">> \o SubSeq(t, 2, k))
             \o <<"e", IF n - 1 < 0 THEN "-" ELSE "+">>
             \o IntText(IF n - 1 < 0 THEN 1 - n ELSE n - 1)

\* String(v), also a number in a template literal
String(v0) ==
    The({(
        IF v.cls = "nan" THEN <<"N", "a", "N">>
        ELSE IF IsZero(v) THEN <<"0">>
        ELSE (IF v.neg THEN <<"-">> ELSE <<>>)
             \o (IF v.cls = "inf" THEN <<"I", "n", "f", "i", "n", "i", "t", "y">>
                 ELSE The({( DigitsToString(dn[1], dn[2]))
                      : dn \in {Shortest(v)}})))
         : v \in {v0}})

\* variant: the digits beyond the f-th cut off
ScaledTruncate(v, f) ==
    IF v.e >= 0 THEN BMul(BShl(v.m, v.e), BPow10(f))
    ELSE BShr(BMul(v.m, BPow10(f)), 0 - v.e)

\* |v| * 10^f rounded to an integer, halves upwards
ScaledRound(v, f) ==
    IF v.e >= 0 THEN BMul(BShl(v.m, v.e), BPow10(f))
    ELSE BShr(BAdd(BMul(v.m, BPow10(f)), BShl(<<1>>, (0 - v.e) - 1)), 0 - v.e)

\* 10^21, from which on toFixed writes a number as String does
ToFixedLimit == Decimal(1, 21)

\* Number.prototype.toFixed(f)
toFixed(v0, f) ==
    The({(
        IF v.cls # "fin" \/ ~LessThan(MathAbs(v), ToFixedLimit) THEN String(v)
        ELSE The({(
             The({(
                (IF v.neg /\ ~IsZero(v) THEN <<"-">> ELSE <<>>)
                \o SubSeq(q, 1, Len(q) - f)
                \o (IF f = 0 THEN <<>> ELSE <<".">> \o SubSeq(q, Len(q) - f + 1, Len(q))))
                  : q \in {IF Len(t) <= f THEN Zeros(f + 1 - Len(t)) \o t ELSE t}}))
             : t \in {DigitText(BDigits(ScaledRound(v, f)))}}))
         : v \in {v0}})

(***************************************************************************)
(* parseTyreSize and formatTyreSize                                        *)
(***************************************************************************)
Tyre(w, a, r) == [widthMm |-> w, aspect |-> a, rimIn |-> r]

parseTyreSize(in) ==
    The({ IF Len(parts) # 2 THEN null
          ELSE The({ IF Len(lr) # 2 THEN null
                     ELSE The({ IF ~isFinite(widthMm) \/ ~isFinite(aspect) \/ ~isFinite(rimIn)
                                THEN null
                                ELSE IF Len(String(widthMm)) # 3 THEN null
                                ELSE IF LessThan(aspect, Num(10)) \/ GreaterThan(aspect, Num(95))
                                THEN null
                                ELSE IF LessThan(rimIn, Num(10)) \/ GreaterThan(rimIn, Num(30))
                                THEN null
                                ELSE Tyre(widthMm, aspect, rimIn)
                                : widthMm \in {Number(lr[1])},
                                  aspect \in {Number(lr[2])},
                                  rimIn \in {Number(parts[2])} })
                     : lr \in {split(parts[1], "/")} })
          : parts \in {split(normalise(in), "R")} })

formatTyreSize(t) ==
    String(t.widthMm) \o <<"/">> \o padStart(String(t.aspect), 2, "0")
        \o <<" ", "R">> \o String(t.rimIn)

(***************************************************************************)
(* Geometry and scoring                                                    *)
(***************************************************************************)
DEMO_VRM == <<"Y", "1", "4", " ", "D", "R", "T">>
OEM_TYRE == <<"2", "6", "5", "/", "3", "0", " ", "R", "2", "0">>

LIMITS == [diameterPctMax |-> Decimal(30, -1), widthDeltaMaxMm |-> Num(25),
           aspectDeltaMaxForFullPenalty |-> Num(10), minScoreShown |-> Num(65)]

overallDiameterMm(t) ==
    The({ Add(rimMm, Multiply(Num(2), sidewallMm))
          : rimMm \in {Multiply(t.rimIn, Decimal(254, -1))},
            sidewallMm \in {Multiply(t.widthMm, Divide(t.aspect, Num(100)))} })

pctDiff(a, b) == Multiply(MathAbs(Divide(Subtract(b, a), a)), Num(100))

clamp(n, min, max) == MathMax(min, MathMin(max, n))

\* the texts of the reasons
DiameterGateReason(diaDiffPct) ==
    <<"D", "i", "a", "m", "e", "t", "e", "r", " ", "Δ", " ">> \o toFixed(diaDiffPct, 2) \o <<"%", " ", "(", "l", "i", "m", "i", "t", " ">>
        \o String(LIMITS.diameterPctMax) \o <<"%", ")">>

RimReason == <<"R", "i", "m", " ", "s", "i", "z", "e", " ", "d", "i", "f",
          "f", "e", "r", "s", " ", "f", "r", "o", "m", " ", "O", "E",
          "M">>

WidthGateReason(widthDelta) ==
    <<"W", "i", "d", "t", "h", " ", "Δ", " ">> \o String(widthDelta) \o <<"m", "m", " ", "(", "l", "i", "m", "i", "t", " ", "±">>
        \o String(LIMITS.widthDeltaMaxMm) \o <<"m", "m", ")">>

DiameterReason(diaDiffPct) == <<"D", "i", "a", "m", "e", "t", "e", "r", " ", "Δ", " ">> \o toFixed(diaDiffPct, 2) \o <<"%">>

WidthReason(widthDelta) == <<"W", "i", "d", "t", "h", " ", "Δ", " ">> \o String(widthDelta) \o <<"m", "m">>

AspectReason(aspectDelta) == <<"A", "s", "p", "e", "c", "t", " ", "Δ", " ">> \o String(aspectDelta)

\* variant: the aspect penalty taken off the other two
weightedScoreAspectRewarded(diaDiffPct, widthDelta, aspectDelta) ==
    The({ clamp(MathRound(Subtract(Num(100),
                                   Subtract(Add(diaPenalty, widthPenalty), aspectPenalty))),
                Zero, Num(100))
          : diaPenalty \in
                {clamp(Multiply(Divide(diaDiffPct, LIMITS.diameterPctMax), Num(55)),
                       Zero, Num(55))},
            widthPenalty \in
                {clamp(Multiply(Divide(widthDelta, LIMITS.widthDeltaMaxMm), Num(25)),
                       Zero, Num(25))},
            aspectPenalty \in
                {clamp(Multiply(Divide(aspectDelta, LIMITS.aspectDeltaMaxForFullPenalty),
                                Num(20)),
                       Zero, Num(20))} })

\* the score of a candidate that has passed the three gates
weightedScore(diaDiffPct, widthDelta, aspectDelta) ==
    The({ clamp(MathRound(Subtract(Num(100),
                                   Add(Add(diaPenalty, widthPenalty), aspectPenalty))),
                Zero, Num(100))
          : diaPenalty \in
                {clamp(Multiply(Divide(diaDiffPct, LIMITS.diameterPctMax), Num(55)),
                       Zero, Num(55))},
            widthPenalty \in
                {clamp(Multiply(Divide(widthDelta, LIMITS.widthDeltaMaxMm), Num(25)),
                       Zero, Num(25))},
            aspectPenalty \in
                {clamp(Multiply(Divide(aspectDelta, LIMITS.aspectDeltaMaxForFullPenalty),
                                Num(20)),
                       Zero, Num(20))} })

\* variant: the rim gate left out
scoreAlternativeNoRimGate(o, alt) ==
    The({ IF GreaterThan(diaDiffPct, LIMITS.diameterPctMax)
          THEN [safe |-> FALSE, score |-> Zero,
                reasons |-> <<DiameterGateReason(diaDiffPct)>>]
          ELSE The({ IF GreaterThan(widthDelta, LIMITS.widthDeltaMaxMm)
                     THEN [safe |-> FALSE, score |-> Zero,
                           reasons |-> <<WidthGateReason(widthDelta)>>]
                     ELSE [safe |-> TRUE,
                           score |-> weightedScore(diaDiffPct, widthDelta, aspectDelta),
                           reasons |-> <<DiameterReason(diaDiffPct),
                                         WidthReason(widthDelta),
                                         AspectReason(aspectDelta)>>]
                     : widthDelta \in {MathAbs(Subtract(alt.widthMm, o.widthMm))},
                       aspectDelta \in {MathAbs(Subtract(alt.aspect, o.aspect))} })
          : diaDiffPct \in {pctDiff(overallDiameterMm(o), overallDiameterMm(alt))} })

scoreAlternative(o, alt) ==
    The({ IF GreaterThan(diaDiffPct, LIMITS.diameterPctMax)
          THEN [safe |-> FALSE, score |-> Zero,
                reasons |-> <<DiameterGateReason(diaDiffPct)>>]
          ELSE IF StrictNotEquals(alt.rimIn, o.rimIn)
          THEN [safe |-> FALSE, score |-> Zero, reasons |-> <<RimReason>>]
          ELSE The({ IF GreaterThan(widthDelta, LIMITS.widthDeltaMaxMm)
                     THEN [safe |-> FALSE, score |-> Zero,
                           reasons |-> <<WidthGateReason(widthDelta)>>]
                     ELSE [safe |-> TRUE,
                           score |-> weightedScore(diaDiffPct, widthDelta, aspectDelta),
                           reasons |-> <<DiameterReason(diaDiffPct),
                                         WidthReason(widthDelta),
                                         AspectReason(aspectDelta)>>]
                     : widthDelta \in {MathAbs(Subtract(alt.widthMm, o.widthMm))},
                       aspectDelta \in {MathAbs(Subtract(alt.aspect, o.aspect))} })
          : diaDiffPct \in {pctDiff(overallDiameterMm(o), overallDiameterMm(alt))} })

(***************************************************************************)
(* Retailer links                                                          *)
(***************************************************************************)
sizeToSlug(size) ==
    The({ IF t = null THEN null
          ELSE String(t.widthMm) \o <<"-">> \o padStart(String(t.aspect), 2, "0")
                  \o <<"-">> \o String(t.rimIn)
          : t \in {parseTyreSize(size)} })

retailerLinksForSize(size) ==
    The({ IF slug = null THEN [blackcircles |-> null, national |-> null]
          ELSE [blackcircles |-> <<"h", "t", "t", "p", "s", ":", "/", "/", "w", "w", "w", ".",
          "b", "l", "a", "c", "k", "c", "i", "r", "c", "l", "e", "s",
          ".", "c", "o", "m", "/", "t", "y", "r", "e", "s", "/">> \o slug,
                national |-> <<"h", "t", "t", "p", "s", ":", "/", "/", "w", "w", "w", ".",
          "n", "a", "t", "i", "o", "n", "a", "l", ".", "c", "o", ".",
          "u", "k", "/", "t", "y", "r", "e", "s", "-", "s", "e", "a",
          "r", "c", "h", "/">> \o slug]
          : slug \in {sizeToSlug(size)} })

(***************************************************************************)
(* runSearch: candidate generation, scoring, filtering, ordering           *)
(***************************************************************************)
widths == <<Num(0 - 20), Num(0 - 10), Num(10), Num(20)>>
aspects == <<Num(0 - 5), Num(5)>>

candidates(parsedOEM) ==
    Limbs([i \in 1..Len(widths) |->
        [parsedOEM EXCEPT !.widthMm = Add(parsedOEM.widthMm, widths[i])]])
    \o Limbs([i \in 1..Len(aspects) |->
        [parsedOEM EXCEPT !.aspect = Add(parsedOEM.aspect, aspects[i])]])
    \o << [parsedOEM EXCEPT !.widthMm = Subtract(parsedOEM.widthMm, Num(10)),
                            !.aspect = Subtract(parsedOEM.aspect, Num(5))],
          [parsedOEM EXCEPT !.widthMm = Add(parsedOEM.widthMm, Num(10)),
                            !.aspect = Subtract(parsedOEM.aspect, Num(5))] >>

withSize(cs) == Limbs([i \in 1..Len(cs) |-> [t |-> cs[i], size |-> formatTyreSize(cs[i])]])

\* filter through the Set "seen": the first occurrence of each size stays
RECURSIVE dedup(_, _)
dedup(xs, seen) ==
    IF xs = <<>> THEN <<>>
    ELSE IF Head(xs).size \in seen THEN dedup(Tail(xs), seen)
    ELSE <<Head(xs)>> \o dedup(Tail(xs), seen \cup {Head(xs).size})

scoreEntry(parsedOEM, x) ==
    The({ [size |-> x.size, score |-> s.score, reasons |-> s.reasons, safe |-> s.safe,
           links |-> retailerLinksForSize(x.size)]
          : s \in {scoreAlternative(parsedOEM, x.t)} })

\* variant: the minimum score left out of the filter
shownAnySafe(x) == x.safe

shown(x) == x.safe /\ GreaterThanOrEqual(x.score, LIMITS.minScoreShown)

\* Array.prototype.sort with comparator b.score - a.score.  The sort is
\* stable (ECMAScript 2019): an entry goes behind the entries of greater
\* score and behind the earlier entries of equal score.
\* variant: entries of equal score end up in reverse order
sortPositionTiesReversed(xs, i) ==
    1 + Cardinality({j \in 1..Len(xs) :
                        GreaterThan(Subtract(xs[j].score, xs[i].score), Zero)})
      + Cardinality({j \in (i + 1)..Len(xs) :
                        StrictEquals(Subtract(xs[j].score, xs[i].score), Zero)})

sortPosition(xs, i) ==
    1 + Cardinality({j \in 1..Len(xs) :
                        GreaterThan(Subtract(xs[j].score, xs[i].score), Zero)})
      + Cardinality({j \in 1..(i - 1) :
                        StrictEquals(Subtract(xs[j].score, xs[i].score), Zero)})

sort(xs) ==
    The({ Limbs([p \in 1..Len(xs) |-> xs[CHOOSE i \in 1..Len(xs) : pos[i] = p]])
          : pos \in {Limbs([i \in 1..Len(xs) |-> sortPosition(xs, i)])} })

dropSafe(x) == [size |-> x.size, score |-> x.score, reasons |-> x.reasons, links |-> x.links]

scoreAll(parsedOEM, unique) ==
    Limbs([i \in 1..Len(unique) |-> scoreEntry(parsedOEM, unique[i])])

scored(oemText, parsedOEM) ==
    The({ The({ The({ The({ The({ Limbs([i \in 1..Len(ordered) |-> dropSafe(ordered[i])])
                                  : ordered \in {sort(kept)} })
                            : kept \in {SelectSeq(all, shown)} })
                      : all \in {scoreAll(parsedOEM, unique)} })
                : unique \in {dedup(SelectSeq(sized, LAMBDA x : x.size # oemText), {})} })
          : sized \in {withSize(candidates(parsedOEM))} })
(***************************************************************************)
(* Bounds and input sets                                                   *)
(***************************************************************************)
MaxPad == 1
MaxSegLen == 3
MaxWidthSteps == 3
MaxAspectSteps == 2
MaxRimSteps == 1

Spaces(k) == Limbs([i \in 1..k |-> " "])

Strings(alphabet, maxLen) == UNION {[1..k -> alphabet] : k \in 0..maxLen}

\* Registration texts typed into the input box: a body, spaces before it
\* and a tab or nothing behind it
VrmBodies ==
    { DEMO_VRM,
      <<"y", "1", "4", " ", "d", "r", "t">>,
      <<"Y", "1", "4", "D", "R", "T">>,
      <<"Y", "1", "4", "@", "N", "B", "S", "P", "@", "D", "R", "T">>,
      <<"A", "1">> }

VrmTexts ==
    { Spaces(i) \o b \o e : i \in 0..MaxPad, b \in VrmBodies, e \in {<<>>, <<"\t">>} }

\* OEM size texts a search is applied to: the constant of the source, other
\* sizes that parse, and texts that do not.
OemTyreTexts ==
    { OEM_TYRE,
      <<"1", "0", "0", "/", "1", "0", " ", "R", "2", "8">>,
      <<"2", "4", "3", "/", "8", "0", " ", "R", "2", "8">>,
      <<"1", "1", "2", "/", "1", "5", "r", "1", "6">>,
      <<"2", "6", "5", "/", "3", "0">>,
      <<"2", "6", "5", "/", "3", "0", " ", "R", "3", "5">> }

\* Texts handed to parseTyreSize: width, slashes, aspect, letter, rim
SegAlphabet == {"0", "1", ".", "-"}

WidthTexts ==
    Strings(SegAlphabet, MaxSegLen)
    \cup { <<"2", "6", "5">>, <<" ", "2", "6", "5">>, <<"\\", "t", "2", "6", "5">>, <<"7", "0">>, <<"7", "0", "0", "0">>, <<"+", "9", "9", "9">>,
           <<"1", "5", "E", "-", "1">>, <<"1", "e", "2">>, <<"0", "x", "1", "0", "9">>, <<"0", "b", "1", "1">>, <<"1", "E", "-", "7">>,
           <<"2", "6", "5", ".", "0", "0", "0", "0", "0", "0", "0", "0",
          "0", "0", "0", "0", "0", "0", "0", "0", "1">>, <<"I", "n", "f", "i", "n", "i", "t", "y">> }

SlashTexts == { <<"/">>, <<>>, <<"/", "/">> }

AspectTexts == { <<"3", "0">>, <<"9">>, <<"9", "6">>, <<"9", ".", "5">>, <<"\\", "t", "3", "0">>, <<>> }

LetterTexts == { <<"R">>, <<" ", "r", " ">>, <<>>, <<"R", "R">> }

RimTexts == { <<"2", "0">>, <<"9">>, <<"3", "1">>, <<"0", "x", "1", "4">>, <<"2", "0", "\\", "n">>, <<>> }

InputStrings ==
    { w \o s1 \o a \o s2 \o r :
        w \in WidthTexts, s1 \in SlashTexts, a \in AspectTexts,
        s2 \in LetterTexts, r \in RimTexts }

\* Well-formed tyres for the round trip
RoundTripTyres ==
    { Tyre(Num(w), Num(a), Num(r)) : w \in {100, 101, 199, 205, 265, 990, 999},
                                     a \in {10, 11, 30, 55, 90, 95},
                                     r \in {10, 16, 20, 29, 30} }

\* Pairs handed to scoreAlternative.  The last three OEM sizes have
\* candidates of exactly their diameter (200/45, 90/50 and 120/50), so that
\* evaluations of one diameter difference and different width or aspect
\* differences occur.
ScoreOems ==
    { Tyre(Num(265), Num(30), Num(20)), Tyre(Num(243), Num(80), Num(28)),
      Tyre(Num(100), Num(19), Num(30)), Tyre(Num(138), Num(20), Num(12)),
      Tyre(Num(180), Num(50), Num(16)), Tyre(Num(100), Num(45), Num(16)),
      Tyre(Num(100), Num(60), Num(16)) }

Alternatives(o) ==
    { Tyre(Add(o.widthMm, Num(10 * dw)), Add(o.aspect, Num(5 * da)), Add(o.rimIn, Num(dr))) :
        dw \in (0 - MaxWidthSteps)..MaxWidthSteps,
        da \in (0 - MaxAspectSteps)..MaxAspectSteps,
        dr \in (0 - MaxRimSteps)..MaxRimSteps }

(***************************************************************************)
(* The Page component: state and handlers                                  *)
(***************************************************************************)
DemoOnlyError == <<"D", "E", "M", "O", " ", "O", "N", "L", "Y", ":", " ", "t",
          "r", "y", " ", "\"">> \o DEMO_VRM \o <<"\"">>
OemInvalidError == <<"O", "E", "M", " ", "t", "y", "r", "e", " ", "s", "i", "z",
          "e", " ", "i", "n", "v", "a", "l", "i", "d", " ", "i", "n",
          " ", "d", "e", "m", "o", ".">>

\* History of the searches, kept for the statements below: whether one has
\* run, the registration text of the last one, whether one has succeeded.
NeverRun == [ran |-> FALSE, text |-> <<>>, everFound |-> FALSE]

IdleParse == input = <<>> /\ src = null /\ parsed = null /\ stage = "idle"
IdleScore == evalOem = null /\ evalAlt = null /\ evalRes = null

\* The page as it is loaded: useState("") for vrm and error, null for oem,
\* [] for alts, and the constant OEM_TYRE of the source
IdlePage ==
    /\ vrm = <<>> /\ error = <<>> /\ oem = null /\ alts = <<>>
    /\ oemTyre = OEM_TYRE /\ history = NeverRun

Init ==
    /\ IdlePage
    /\ IdleParse
    /\ IdleScore

\* onChange of the input box
setVrm(text) ==
    /\ vrm' = text
    /\ UNCHANGED <<error, oem, alts, oemTyre, history>>
    /\ UNCHANGED <<parseVars, scoreVars>>

\* variant: the alternatives of the previous search stay
notDemoKeepsAlts ==
    /\ oem' = null
    /\ error' = DemoOnlyError
    /\ UNCHANGED alts

\* the registration is not the demo one
notDemo ==
    /\ oem' = null
    /\ alts' = <<>>
    /\ error' = DemoOnlyError

\* the OEM size does not parse: the error is set, oem and alts are left
oemInvalid ==
    /\ error' = OemInvalidError
    /\ UNCHANGED <<oem, alts>>

\* candidates generated, scored, filtered and ordered
found(v, parsedOEM) ==
    /\ error' = <<>>
    /\ oem' = [vrm |-> v, tyre |-> oemTyre]
    /\ alts' = scored(oemTyre, parsedOEM)

runSearch ==
    /\ \E v \in {toUpperCase(trim(vrm))} : \E parsedOEM \in {parseTyreSize(oemTyre)} :
          /\ IF v # DEMO_VRM THEN notDemo
             ELSE IF parsedOEM = null THEN oemInvalid
             ELSE found(v, parsedOEM)
          /\ history' = [ran |-> TRUE, text |-> vrm,
                         everFound |-> history.everFound \/ (v = DEMO_VRM /\ parsedOEM # null)]
    /\ UNCHANGED <<vrm, oemTyre>>
    /\ UNCHANGED <<parseVars, scoreVars>>

Next == (\E text \in VrmTexts : setVrm(text)) \/ runSearch

Spec == Init /\ [][Next]_vars

(***************************************************************************)
(* runSearch applied to drawn start states                                 *)
(***************************************************************************)
\* What the page shows when a search starts: what useState gave it or what
\* an earlier search left there (its error, or the OEM and the list
\* of a search that found some OEM size)
Displays ==
    { [error |-> <<>>, oem |-> null, alts |-> <<>>],
      [error |-> DemoOnlyError, oem |-> null, alts |-> <<>>],
      [error |-> OemInvalidError, oem |-> null, alts |-> <<>>] }
    \cup { [error |-> <<>>, oem |-> [vrm |-> DEMO_VRM, tyre |-> t],
            alts |-> scored(t, parseTyreSize(t))]
           : t \in {x \in OemTyreTexts : parseTyreSize(x) # null} }

\* A search about to start: any text in the box, any OEM size text, any
\* display
InitSearch ==
    /\ vrm \in VrmTexts
    /\ oemTyre \in OemTyreTexts
    /\ \E d \in Displays : error = d.error /\ oem = d.oem /\ alts = d.alts
    /\ history = NeverRun
    /\ IdleParse
    /\ IdleScore

Search == ~history.ran /\ runSearch

NextSearch == Search

SpecSearch == InitSearch /\ [][NextSearch]_vars

(***************************************************************************)
(* The parser and the formatter applied to drawn inputs                    *)
(***************************************************************************)
InitParse ==
    /\ IdlePage
    /\ IdleScore
    /\ parsed = null
    /\ \/ src = null /\ input \in InputStrings /\ stage = "parse"
       \/ src \in RoundTripTyres /\ input = <<>> /\ stage = "format"

Format ==
    /\ stage = "format"
    /\ input' = formatTyreSize(src)
    /\ stage' = "parse"
    /\ UNCHANGED <<src, parsed, uiVars, scoreVars>>

Parse ==
    /\ stage = "parse"
    /\ parsed' = parseTyreSize(input)
    /\ stage' = "done"
    /\ UNCHANGED <<input, src, uiVars, scoreVars>>

NextParse == Format \/ Parse

SpecParse == InitParse /\ [][NextParse]_vars

(***************************************************************************)
(* scoreAlternative applied to drawn pairs                                 *)
(***************************************************************************)
InitScore ==
    /\ IdlePage
    /\ IdleParse
    /\ evalOem \in ScoreOems
    /\ evalAlt \in Alternatives(evalOem)
    /\ evalRes = null

Evaluate ==
    /\ evalRes = null
    /\ evalRes' = scoreAlternative(evalOem, evalAlt)
    /\ UNCHANGED <<evalOem, evalAlt, uiVars, parseVars>>

NextScore == Evaluate

SpecScore == InitScore /\ [][NextScore]_vars

(***************************************************************************)
(* Properties                                                              *)
(***************************************************************************)
\* A table: the function f with its values computed
Table(f) == f @@ <<>>

\* The integer a number stands for, where it is one of less than 31 bits
IsInt(v) == v.cls = "fin" /\ v.e >= 0 /\ BitLen(v.m) + v.e <= 30
IntOf(v) ==
    The({ (IF v.neg THEN 0 - 1 ELSE 1) * (Limb(a, 1) + Base * Limb(a, 2))
          : a \in {BShl(v.m, v.e)} })
Sizes(t) == [widthMm |-> IntOf(t.widthMm), aspect |-> IntOf(t.aspect), rimIn |-> IntOf(t.rimIn)]
Doubles(t) == Tyre(Num(t.widthMm), Num(t.aspect), Num(t.rimIn))

\* The deltas in integers: diameters in fiftieths of a millimetre, the
\* percentage as the diameter difference over the OEM diameter.
Dia50(t) == 1270 * t.rimIn + t.widthMm * t.aspect
DiaDelta50(o, alt) == IF Dia50(alt) < Dia50(o) THEN Dia50(o) - Dia50(alt) ELSE Dia50(alt) - Dia50(o)
WidthDeltaOf(o, alt) == IF alt.widthMm < o.widthMm THEN o.widthMm - alt.widthMm ELSE alt.widthMm - o.widthMm
AspectDeltaOf(o, alt) == IF alt.aspect < o.aspect THEN o.aspect - alt.aspect ELSE alt.aspect - o.aspect

DiameterGate(o, alt) == 100 * DiaDelta50(o, alt) > 3 * Dia50(o)
AtDiameterLimit(o, alt) == 100 * DiaDelta50(o, alt) = 3 * Dia50(o)
RimGate(o, alt) == alt.rimIn # o.rimIn
WidthGate(o, alt) == WidthDeltaOf(o, alt) > 25
GateViolated(o, alt) == DiameterGate(o, alt) \/ RimGate(o, alt) \/ WidthGate(o, alt)

Evaluated == evalRes # null
EvalOem == Sizes(evalOem)
EvalAlt == Sizes(evalAlt)

\* C1: whenever a hard gate is violated (diameter difference above 3.0%,
\* another rim, width difference above 25 mm) scoreAlternative returns
\* safe = false and score 0; it returns safe = true only when no gate is
\* violated.
C1_GatesReject ==
    Evaluated =>
        /\ GateViolated(EvalOem, EvalAlt) => (~evalRes.safe /\ evalRes.score = Zero)
        /\ evalRes.safe => ~GateViolated(EvalOem, EvalAlt)

\* the rim gate alone rejects a candidate whose other deltas are within limits
C1_Witness ==
    /\ Evaluated
    /\ RimGate(EvalOem, EvalAlt)
    /\ ~DiameterGate(EvalOem, EvalAlt) /\ ~AtDiameterLimit(EvalOem, EvalAlt)
    /\ ~WidthGate(EvalOem, EvalAlt)
    /\ ~evalRes.safe

\* The tyre of each OEM text, the candidates in the order of their
\* generation, and the size text of a candidate
ParsedOem == Table([t \in OemTyreTexts |-> parseTyreSize(t)])
OemParsed == ParsedOem[oemTyre] # null
OemOf == Sizes(ParsedOem[oemTyre])

GenerationOrder(o) ==
    << [o EXCEPT !.widthMm = @ - 20], [o EXCEPT !.widthMm = @ - 10],
       [o EXCEPT !.widthMm = @ + 10], [o EXCEPT !.widthMm = @ + 20],
       [o EXCEPT !.aspect = @ - 5], [o EXCEPT !.aspect = @ + 5],
       [o EXCEPT !.widthMm = @ - 10, !.aspect = @ - 5],
       [o EXCEPT !.widthMm = @ + 10, !.aspect = @ - 5] >>

SizeText(t) ==
    IntText(t.widthMm) \o <<"/">> \o (IF t.aspect \in 0..9 THEN <<"0">> ELSE <<>>)
        \o IntText(t.aspect) \o <<" ", "R">> \o IntText(t.rimIn)

\* the evaluation of each generated candidate, for each OEM text that parses
GeneratedScores ==
    Table([t \in {x \in OemTyreTexts : ParsedOem[x] # null} |->
              Limbs([k \in 1..Len(GenerationOrder(Sizes(ParsedOem[t]))) |->
                  scoreAlternative(ParsedOem[t],
                                   Doubles(GenerationOrder(Sizes(ParsedOem[t]))[k]))])])

Generated == GenerationOrder(OemOf)
IsGenerated(size) == \E k \in 1..Len(Generated) : SizeText(Generated[k]) = size
GenIndex(size) ==
    CHOOSE k \in 1..Len(Generated) :
        /\ SizeText(Generated[k]) = size
        /\ \A j \in 1..(k - 1) : SizeText(Generated[j]) # size

\* C2: every entry of the alternatives list was scored safe and has a
\* score of at least 65.
C2_ShownAreSafeAndAboveMin ==
    \A i \in 1..Len(alts) :
        /\ IsInt(alts[i].score) /\ IntOf(alts[i].score) >= 65
        /\ OemParsed
        /\ IsGenerated(alts[i].size)
        /\ ~GateViolated(OemOf, Generated[GenIndex(alts[i].size)])
        /\ GeneratedScores[oemTyre][GenIndex(alts[i].size)].safe
        /\ GeneratedScores[oemTyre][GenIndex(alts[i].size)].score = alts[i].score

\* a search listed some candidates and left out a safe one scored below 65
C2_Witness ==
    /\ Len(alts) >= 2
    /\ \E k \in 1..Len(Generated) :
          /\ GeneratedScores[oemTyre][k].safe
          /\ IntOf(GeneratedScores[oemTyre][k].score) < 65
          /\ \A i \in 1..Len(alts) : alts[i].size # SizeText(Generated[k])

\* The candidates generated for the OEM size on display, the one the
\* entries of the list were scored against
ListedFrom == GenerationOrder(Sizes(ParsedOem[oem.tyre]))
ListedIndex(size) ==
    CHOOSE k \in 1..Len(ListedFrom) :
        /\ SizeText(ListedFrom[k]) = size
        /\ \A j \in 1..(k - 1) : SizeText(ListedFrom[j]) # size

\* C3: the list is in descending score order, and entries of equal score
\* are in the order of their generation (width offsets -20, -10, +10, +20,
\* then aspect offsets -5, +5, then the two combined ones).
C3_SortedStable ==
    \A i \in 1..Len(alts) : \A j \in 1..Len(alts) :
        i < j =>
            \/ IntOf(alts[i].score) > IntOf(alts[j].score)
            \/ /\ IntOf(alts[i].score) = IntOf(alts[j].score)
               /\ ListedIndex(alts[i].size) < ListedIndex(alts[j].size)

\* a search has produced a list with a tie, a strict descent, and an entry
\* moved ahead of one generated before it
C3_Witness ==
    /\ history.ran
    /\ toUpperCase(trim(history.text)) = DEMO_VRM
    /\ OemParsed
    /\ oem.tyre = oemTyre
    /\ \E i \in 1..Len(alts) : \E j \in 1..Len(alts) :
          i < j /\ alts[i].score = alts[j].score
    /\ \E i \in 1..Len(alts) : \E j \in 1..Len(alts) :
          i < j /\ IntOf(alts[i].score) > IntOf(alts[j].score)
                /\ ListedIndex(alts[i].size) > ListedIndex(alts[j].size)

\* The segments of a text as parseTyreSize cuts them
PartsOf(text) == split(normalise(text), "R")
SidesOf(text) == split(PartsOf(text)[1], "/")

ThreeDigitWidth(v) == IsInt(v) /\ ~v.neg /\ IntOf(v) \in 100..999

\* C4: parseTyreSize returns a tyre only when the normalised text splits
\* on R into exactly two non-empty segments, the left one on / into
\* exactly two non-empty segments, the width is an integer of exactly
\* three decimal digits, the aspect lies in [10, 95] and the rim in
\* [10, 30]; every other text yields null.
C4_ParseOnlyWellFormed ==
    (stage = "done" /\ parsed # null) =>
        /\ Len(PartsOf(input)) = 2
        /\ PartsOf(input)[1] # <<>> /\ PartsOf(input)[2] # <<>>
        /\ Len(SidesOf(input)) = 2
        /\ SidesOf(input)[1] # <<>> /\ SidesOf(input)[2] # <<>>
        /\ ThreeDigitWidth(parsed.widthMm)
        /\ ~LessThan(parsed.aspect, Num(10)) /\ ~GreaterThan(parsed.aspect, Num(95))
        /\ ~LessThan(parsed.rimIn, Num(10)) /\ ~GreaterThan(parsed.rimIn, Num(30))

WellFormed(t) ==
    /\ IsInt(t.widthMm) /\ IntOf(t.widthMm) \in 100..999
    /\ IsInt(t.aspect) /\ IntOf(t.aspect) \in 10..95
    /\ IsInt(t.rimIn) /\ IntOf(t.rimIn) \in 10..30

\* C5: for every well-formed tyre t, parseTyreSize(formatTyreSize(t))
\* succeeds and returns the width, aspect and rim of t.
C5_RoundTrip ==
    (stage = "done" /\ src # null /\ WellFormed(src)) =>
        /\ parsed # null
        /\ parsed.widthMm = src.widthMm
        /\ parsed.aspect = src.aspect
        /\ parsed.rimIn = src.rimIn

\* a tyre at the lower end of the aspect and rim ranges went through
\* format and parse
C5_Witness ==
    /\ stage = "done"
    /\ src # null /\ WellFormed(src)
    /\ IntOf(src.aspect) = 10 /\ IntOf(src.rimIn) = 10
    /\ input = SizeText(Sizes(src))
    /\ parsed # null

\* The pairs scoreAlternative is applied to and, for each, the deltas as
\* scoreAlternative measures them (the diameter difference in percent is
\* the double it computes), whether the rims differ, and the outcome.
Pairs == UNION {{<<o, alt>> : alt \in Alternatives(o)} : o \in ScoreOems}

MeasuredDiameterMm(t) ==
    Add(Multiply(t.rimIn, Decimal(254, -1)),
        Multiply(Num(2), Multiply(t.widthMm, Divide(t.aspect, Num(100)))))

MeasuredPct(o, alt) ==
    The({ The({ IF d.neg THEN Negate(d) ELSE d
                : d \in {Multiply(Divide(Subtract(MeasuredDiameterMm(alt), oemDia), oemDia),
                                  Num(100))} })
          : oemDia \in {MeasuredDiameterMm(o)} })

Measure(o, alt) ==
    The({ [pct |-> MeasuredPct(o, alt),
           width |-> WidthDeltaOf(Sizes(o), Sizes(alt)),
           aspect |-> AspectDeltaOf(Sizes(o), Sizes(alt)),
           rimDiffers |-> RimGate(Sizes(o), Sizes(alt)),
           safe |-> res.safe,
           score |-> IntOf(res.score)]
          : res \in {scoreAlternative(o, alt)} })

Measures == Table([q \in Pairs |-> Measure(q[1], q[2])])

AllMeasures == {Measures[q] : q \in Pairs}

\* the evaluation at hand: its deltas, and the outcome scoreAlternative gave
Current ==
    [Measures[<<evalOem, evalAlt>>] EXCEPT !.safe = evalRes.safe,
                                           !.score = IntOf(evalRes.score)]

\* b differs from a in one measured delta only, of which it has the larger
\* value
DiameterOnly(a, b) == a.width = b.width /\ a.aspect = b.aspect /\ LessThan(a.pct, b.pct)
WidthOnly(a, b) == a.width < b.width /\ a.aspect = b.aspect /\ StrictEquals(a.pct, b.pct)
AspectOnly(a, b) == a.width = b.width /\ a.aspect < b.aspect /\ StrictEquals(a.pct, b.pct)
OneDeltaLarger(a, b) == DiameterOnly(a, b) \/ WidthOnly(a, b) \/ AspectOnly(a, b)

\* no measured delta of b is smaller than that of a
NoDeltaSmaller(a, b) ==
    /\ a.width <= b.width
    /\ a.aspect <= b.aspect
    /\ ~GreaterThan(a.pct, b.pct)

\* C6 as stated: of two evaluations that differ in exactly one measured
\* delta, the one with the larger delta has the smaller or equal score.
C6_MonotoneAnyPair ==
    Evaluated =>
        \A cur \in {Current} : \A other \in AllMeasures :
            /\ OneDeltaLarger(cur, other) => other.score <= cur.score
            /\ OneDeltaLarger(other, cur) => cur.score <= other.score

\* C6 amended: a candidate of another rim than the OEM scores 0 whatever
\* its deltas; of two evaluations of candidates of the OEM rim, one that has
\* no measured delta smaller than the other (in particular one that
\* differs from it in exactly one delta, which is larger) has the smaller
\* or equal score.
C6_MonotoneSameRim ==
    Evaluated =>
        \A cur \in {Current} :
            /\ cur.rimDiffers => cur.score = 0
            /\ \A other \in AllMeasures :
                  (~cur.rimDiffers /\ ~other.rimDiffers) =>
                      /\ NoDeltaSmaller(cur, other) => other.score <= cur.score
                      /\ NoDeltaSmaller(other, cur) => cur.score <= other.score

\* b passed the gates as a did, differs from a in the one delta and has a
\* strictly smaller score
StrictlyBelow(a, b) == ~b.rimDiffers /\ b.safe /\ b.score < a.score

\* a scored candidate, and three more that differ from it in one delta
\* each and are scored differently: one in the width difference only, one
\* in the aspect difference only, one in the diameter difference only
C6_Witness ==
    /\ Evaluated
    /\ evalRes.safe
    /\ IntOf(evalRes.score) \in 1..99
    /\ \E cur \in {Current} :
          /\ \E other \in AllMeasures :
                \/ WidthOnly(cur, other) /\ StrictlyBelow(cur, other)
                \/ WidthOnly(other, cur) /\ StrictlyBelow(other, cur)
          /\ \E other \in AllMeasures :
                \/ AspectOnly(cur, other) /\ StrictlyBelow(cur, other)
                \/ AspectOnly(other, cur) /\ StrictlyBelow(other, cur)
          /\ \E other \in AllMeasures :
                \/ DiameterOnly(cur, other) /\ StrictlyBelow(cur, other)
                \/ DiameterOnly(other, cur) /\ StrictlyBelow(other, cur)

\* The texts of the reasons for a diameter difference of n hundredths of a
\* percent, a width difference of w mm and an aspect difference of a
HundredthsText(n) ==
    IntText(n \div 100) \o <<".">> \o IntText((n % 100) \div 10) \o IntText(n % 10)
DiameterText(n) == <<"D", "i", "a", "m", "e", "t", "e", "r", " ", "Δ", " ">> \o HundredthsText(n) \o <<"%">>
DiameterLimitText(n) == DiameterText(n) \o <<" ", "(", "l", "i", "m", "i", "t", " ", "3", "%", ")">>
RimText == <<"R", "i", "m", " ", "s", "i", "z", "e", " ", "d", "i", "f",
          "f", "e", "r", "s", " ", "f", "r", "o", "m", " ", "O", "E",
          "M">>
WidthText(w) == <<"W", "i", "d", "t", "h", " ", "Δ", " ">> \o IntText(w) \o <<"m", "m">>
WidthLimitText(w) == WidthText(w) \o <<" ", "(", "l", "i", "m", "i", "t", " ", "±", "2", "5", "m", "m", ")">>
AspectText(a) == <<"A", "s", "p", "e", "c", "t", " ", "Δ", " ">> \o IntText(a)

StartsWith(s, prefix) == Len(s) >= Len(prefix) /\ SubSeq(s, 1, Len(prefix)) = prefix
Mentions(reasons, prefix) == \E i \in 1..Len(reasons) : StartsWith(reasons[i], prefix)

\* The numbers of hundredths nearest to the diameter difference in percent
NearestHundredths(o, alt) ==
    { n \in { (10000 * DiaDelta50(o, alt)) \div Dia50(o),
              (10000 * DiaDelta50(o, alt)) \div Dia50(o) + 1 } :
        /\ 2 * (n * Dia50(o) - 10000 * DiaDelta50(o, alt)) <= Dia50(o)
        /\ 2 * (10000 * DiaDelta50(o, alt) - n * Dia50(o)) <= Dia50(o) }

\* C7 as stated: whatever the outcome, the reasons list contains the
\* diameter, the width and the aspect delta.
C7_ReasonsAlwaysThreeDeltas ==
    Evaluated =>
        /\ Mentions(evalRes.reasons, <<"D", "i", "a", "m", "e", "t", "e", "r", " ", "Δ", " ">>)
        /\ Mentions(evalRes.reasons, <<"W", "i", "d", "t", "h", " ", "Δ", " ">>)
        /\ Mentions(evalRes.reasons, <<"A", "s", "p", "e", "c", "t", " ", "Δ", " ">>)

RejectedByDiameter(o, a, rs) ==
    \E n \in NearestHundredths(o, a) : rs = <<DiameterLimitText(n)>>

NotRejectedByDiameter(o, a, rs) ==
    IF RimGate(o, a) THEN rs = <<RimText>>
    ELSE IF WidthGate(o, a) THEN rs = <<WidthLimitText(WidthDeltaOf(o, a))>>
    ELSE \E n \in NearestHundredths(o, a) :
            rs = <<DiameterText(n), WidthText(WidthDeltaOf(o, a)),
                   AspectText(AspectDeltaOf(o, a))>>

\* C7 amended: a candidate that passes the three gates gets the reasons
\* diameter delta (in percent, to two decimals), width delta, aspect delta,
\* in this order; a rejected candidate gets exactly one reason, that of the
\* first gate it fails (diameter, then rim, then width), with the measured
\* delta and the limit for the diameter and the width gate.  At a diameter
\* difference of exactly 3% either outcome of the diameter gate is allowed.
C7_ReasonsByOutcome ==
    Evaluated =>
        IF DiameterGate(EvalOem, EvalAlt)
        THEN RejectedByDiameter(EvalOem, EvalAlt, evalRes.reasons)
        ELSE IF AtDiameterLimit(EvalOem, EvalAlt)
        THEN \/ RejectedByDiameter(EvalOem, EvalAlt, evalRes.reasons)
             \/ NotRejectedByDiameter(EvalOem, EvalAlt, evalRes.reasons)
        ELSE NotRejectedByDiameter(EvalOem, EvalAlt, evalRes.reasons)

\* a candidate of the OEM rim and a width within the limit whose diameter
\* differs by exactly 3% carries the single diameter reason
C7_Witness ==
    /\ Evaluated
    /\ AtDiameterLimit(EvalOem, EvalAlt)
    /\ ~RimGate(EvalOem, EvalAlt) /\ ~WidthGate(EvalOem, EvalAlt)
    /\ evalRes.reasons = <<DiameterLimitText(300)>>

\* The last search took the branch for an OEM text that does not parse
OemInvalidBranchTaken ==
    /\ history.ran
    /\ toUpperCase(trim(history.text)) = DEMO_VRM
    /\ ~OemParsed

\* score 26.
C9_Case ==
    /\ Evaluated
    /\ evalOem = Tyre(Num(265), Num(30), Num(20))
    /\ evalAlt = Tyre(Num(255), Num(35), Num(20))

C9_Example26530 ==
    C9_Case =>
        /\ evalRes.safe
        /\ evalRes.score = Num(26)
        /\ overallDiameterMm(evalOem) = Num(667)
        /\ overallDiameterMm(evalAlt) = Decimal(6865, -1)
        /\ evalRes.reasons = <<DiameterText(292), WidthText(10), AspectText(5)>>

C9_Witness == C9_Case /\ evalRes.safe /\ IntOf(evalRes.score) > 0

\* C10: the state a search leaves (error, displayed OEM, alternatives)
\* depends only on the registration text of that search: it is the state
\* the same search leaves when it is the first one after loading the page.
FirstList ==
    Table([t \in OemTyreTexts |->
              IF ParsedOem[t] = null THEN <<>> ELSE scored(t, ParsedOem[t])])

FirstSearch(text) ==
    IF toUpperCase(trim(text)) # DEMO_VRM
    THEN <<DemoOnlyError, null, <<>>>>
    ELSE IF ~OemParsed
    THEN <<OemInvalidError, null, <<>>>>
    ELSE <<<<>>, [vrm |-> toUpperCase(trim(text)), tyre |-> oemTyre], FirstList[oemTyre]>>

C10_SearchIndependentOfHistory ==
    history.ran => <<error, oem, alts>> = FirstSearch(history.text)

\* a failed search after a successful one that listed candidates
C10_Witness ==
    /\ history.ran
    /\ history.everFound
    /\ OemParsed /\ FirstList[oemTyre] # <<>>
    /\ toUpperCase(trim(history.text)) # DEMO_VRM
    /\ alts = <<>>

====
